---------------------------- MODULE Spec2Model ----------------------------
(***************************************************************************)
(* A model of datasets/voc.py: the colormap generator voc_cmap, the        *)
(* archive extractor download_extract / safe_extract, and the dataset      *)
(* index VOCSegmentation (construction, __len__, __getitem__).             *)
(*                                                                         *)
(* Strings are sequences of symbols.  A symbol is one character ("/", ".", *)
(* " ", "\n", "~", "a", ...) or one of the fixed multi-character names the *)
(* source writes as literals ("VOCdevkit", "JPEGImages", ".jpg", ...),     *)
(* none of which contains a separator.  The destination roots, and every   *)
(* member name that escapes its root, are spelled in single characters, so *)
(* commonprefix compares them character by character as the code does.     *)
(***************************************************************************)
EXTENDS Integers, Sequences, FiniteSets, TLC

VARIABLES
    pc,          \* position of the running call
    err,         \* the error the call raised, "none" while it has raised none
    \* voc_cmap / decode_target
    N,           \* argument N of voc_cmap
    normalized,  \* argument normalized of voc_cmap
    i,           \* loop index of voc_cmap
    cmap,        \* the table under construction (1-based: cmap[i+1] is row i)
    decoded,     \* last result of decode_target on one mask element
    \* download_extract / safe_extract
    root,        \* destination root (self.root)
    dlOutcome,   \* what download_url will do: "ok", "ChecksumMismatch", "NetworkError"
    archive,     \* tar.getmembers(): the member names, in archive order
    k,           \* number of members the pre-pass has checked
    dirs,        \* directories present on the filesystem
    files,       \* files present on the filesystem
    written,     \* paths written by tar.extractall
    ret,         \* where download_extract returns to
    \* VOCSegmentation
    year, image_set, download, is_aug,
    voc_root, image_dir, mask_dir, split_f,
    lines,       \* f.readlines() of the manifest
    images, masks,
    index,       \* argument of the last __getitem__
    result,      \* its outcome
    trace        \* the setup steps taken so far, in order

cmapVars == <<N, normalized, i, cmap, decoded>>
exVars   == <<root, dlOutcome, archive, k, dirs, files, written, ret, trace>>
dsVars   == <<year, image_set, download, is_aug, voc_root, image_dir, mask_dir,
              split_f, lines, images, masks, index, result>>
vars     == <<pc, err, cmapVars, exVars, dsVars>>

None == "none"

\* no __getitem__ call has returned yet
NoResult == [kind |-> "none"]

\* no voc_cmap call is in progress
NoCmapCall == N = 0 /\ normalized = FALSE /\ i = 0 /\ cmap = <<>> /\ decoded = <<>>

\* no dataset object is under construction
NoDataset ==
    /\ year = None /\ image_set = <<>> /\ download = FALSE /\ is_aug = FALSE
    /\ voc_root = <<>> /\ image_dir = <<>> /\ mask_dir = <<>> /\ split_f = <<>>
    /\ lines = <<>> /\ images = <<>> /\ masks = <<>> /\ index = 0 /\ result = NoResult

\* no download_extract call is in progress and the filesystem is empty
NoExtractCall ==
    /\ root = <<>> /\ dlOutcome = None /\ archive = <<>> /\ k = 0
    /\ dirs = {} /\ files = {} /\ written = {} /\ ret = None /\ trace = <<>>

-----------------------------------------------------------------------------
(* Strings and posix paths                                                 *)

SEP == "/"

StartsWith(s, c) == Len(s) > 0 /\ s[1] = c

EndsWith(s, c) == Len(s) > 0 /\ s[Len(s)] = c

IsPrefix(p, s) == Len(p) <= Len(s) /\ SubSeq(s, 1, Len(p)) = p

\* s[n:] of Python, n a 0-based offset
Drop(s, n) == SubSeq(s, n + 1, Len(s))

\* posixpath.join(a, b)
JoinNoReset(a, b) == IF a = <<>> \/ EndsWith(a, SEP) THEN a \o b ELSE a \o <<SEP>> \o b

Join(a, b) == IF StartsWith(b, SEP) THEN b ELSE JoinNoReset(a, b)

\* s.split("/")
RECURSIVE SplitFrom(_, _, _)
SplitFrom(s, n, cur) ==
    IF n > Len(s) THEN <<cur>>
    ELSE IF s[n] = SEP THEN <<cur>> \o SplitFrom(s, n + 1, <<>>)
    ELSE SplitFrom(s, n + 1, Append(cur, s[n]))

Split(s) == SplitFrom(s, 1, <<>>)

\* "/".join(comps)
RECURSIVE JoinComps(_)
JoinComps(comps) ==
    IF comps = <<>> THEN <<>>
    ELSE IF Len(comps) = 1 THEN comps[1]
    ELSE comps[1] \o <<SEP>> \o JoinComps(Tail(comps))

DOT == <<".">>

DOTDOT == <<".", ".">>

\* the loop of posixpath.normpath over the components
RECURSIVE NormComps(_, _, _)
NormComps(comps, new, initial_slashes) ==
    IF comps = <<>> THEN new
    ELSE LET comp == Head(comps)
             rest == Tail(comps)
         IN IF comp = <<>> \/ comp = DOT THEN NormComps(rest, new, initial_slashes)
            ELSE IF \/ comp # DOTDOT
                    \/ (initial_slashes = 0 /\ new = <<>>)
                    \/ (new # <<>> /\ new[Len(new)] = DOTDOT)
                 THEN NormComps(rest, Append(new, comp), initial_slashes)
            ELSE IF new # <<>>
                 THEN NormComps(rest, SubSeq(new, 1, Len(new) - 1), initial_slashes)
            ELSE NormComps(rest, new, initial_slashes)

Slashes(n) == [x \in 1..n |-> SEP]

\* posixpath.normpath
normpath(path) ==
    IF path = <<>> THEN DOT
    ELSE LET initial_slashes ==
                 IF ~StartsWith(path, SEP) THEN 0
                 ELSE IF IsPrefix(<<SEP, SEP>>, path) /\ ~IsPrefix(<<SEP, SEP, SEP>>, path)
                      THEN 2 ELSE 1
             out == Slashes(initial_slashes)
                        \o JoinComps(NormComps(Split(path), <<>>, initial_slashes))
         IN IF out = <<>> THEN DOT ELSE out

\* os.getcwd() of the running process
Cwd == <<"/", "w">>

\* the home directory expanduser substitutes for "~"
Home == <<"/", "h">>

\* posixpath.abspath
abspath(path) == normpath(IF StartsWith(path, SEP) THEN path ELSE Join(Cwd, path))

\* posixpath.expanduser, for "~" and "~/..." (no "~user" form is passed)
expanduser(path) ==
    IF ~StartsWith(path, "~") THEN path
    ELSE IF Len(path) = 1 THEN Home
    ELSE IF path[2] = SEP THEN Home \o Drop(path, 1)
    ELSE path

\* os.path.commonprefix([a, b]): the longest common leading run, symbol by symbol
RECURSIVE commonprefix(_, _)
commonprefix(a, b) ==
    IF a = <<>> \/ b = <<>> \/ Head(a) # Head(b) THEN <<>>
    ELSE <<Head(a)>> \o commonprefix(Tail(a), Tail(b))

WHITESPACE == {" ", "\n", "\t"}

\* str.rstrip(chars)
RECURSIVE rstrip(_, _)
rstrip(s, chars) ==
    IF s # <<>> /\ s[Len(s)] \in chars THEN rstrip(SubSeq(s, 1, Len(s) - 1), chars) ELSE s

\* str.lstrip(chars)
RECURSIVE lstrip(_, _)
lstrip(s, chars) == IF s # <<>> /\ Head(s) \in chars THEN lstrip(Tail(s), chars) ELSE s

\* mutant of strip: only the right end trimmed
stripMut(s) == rstrip(s, WHITESPACE)

\* str.strip()

strip(s) == lstrip(rstrip(s, WHITESPACE), WHITESPACE)

-----------------------------------------------------------------------------
(* voc_cmap and decode_target                                              *)

\* the default of voc_cmap's parameter N, the size of the class-level table
DefaultN == 256

\* table sizes tried: -MaxNegSize..MaxSmallSize and DefaultN..DefaultN+MaxOverSize
MaxNegSize == 2

MaxSmallSize == 9

MaxOverSize == 2

Sizes == (-MaxNegSize..MaxSmallSize) \cup (DefaultN..(DefaultN + MaxOverSize))

\* bitget(byteval, idx): ((byteval & (1 << idx)) != 0), as the 0/1 it shifts
bitget(byteval, idx) == IF (byteval \div (2 ^ idx)) % 2 # 0 THEN 1 ELSE 0

\* x << n
shl(x, n) == x * (2 ^ n)

\* x | y on the naturals
RECURSIVE bitor(_, _)
bitor(x, y) ==
    IF x = 0 THEN y
    ELSE IF y = 0 THEN x
    ELSE (IF x % 2 = 1 \/ y % 2 = 1 THEN 1 ELSE 0) + 2 * bitor(x \div 2, y \div 2)

\* mutant of next_c: the working copy shifted one bit too far
next_cMut(c) == c \div 16

\* c = c >> 3
next_c(c) == c \div 8

\* mutant of bit_pos: the shift counted from the low end
bit_posMut(j) == j

\* the shift 7-j of the extracted bits
bit_pos(j) == 7 - j

\* the loop "for j in range(8)" from iteration j on
RECURSIVE cmap_inner(_, _)
cmap_inner(st, j) ==
    IF j >= 8 THEN st
    ELSE cmap_inner([r |-> bitor(st.r, shl(bitget(st.c, 0), bit_pos(j))),
                     g |-> bitor(st.g, shl(bitget(st.c, 1), bit_pos(j))),
                     b |-> bitor(st.b, shl(bitget(st.c, 2), bit_pos(j))),
                     c |-> next_c(st.c)], j + 1)

\* the body of "for i in range(N)": the row stored in cmap[i] (a uint8 or float32 row)
cmap_row(n) ==
    LET st == cmap_inner([r |-> 0, g |-> 0, b |-> 0, c |-> n], 0)
    IN <<st.r % 256, st.g % 256, st.b % 256>>

\* mutant of zeros_ok: any shape accepted
zeros_okMut(n) == TRUE

\* np.zeros((N, 3)) accepts the shape

zeros_ok(n) == n >= 0

\* cmap/255: each channel v becomes the fraction v/255, written <<v, 255>>
divide255(row) == [c \in 1..3 |-> <<row[c], 255>>]

InitCmap ==
    /\ pc = "cmap_start" /\ err = None
    /\ N \in Sizes /\ normalized \in BOOLEAN
    /\ i = 0 /\ cmap = <<>> /\ decoded = <<>>
    /\ NoExtractCall /\ NoDataset

\* cmap = np.zeros((N, 3), dtype=dtype): ValueError on a negative dimension
CmapAlloc ==
    /\ pc = "cmap_start"
    /\ IF zeros_ok(N)
       THEN /\ cmap' = [n \in 1..N |-> <<0, 0, 0>>]
            /\ pc' = "cmap_loop"
            /\ err' = err
       ELSE /\ cmap' = cmap
            /\ pc' = "cmap_raised"
            /\ err' = "ValueError"
    /\ i' = 0
    /\ UNCHANGED <<N, normalized, decoded, exVars, dsVars>>

\* one iteration of "for i in range(N)"
CmapLoop ==
    /\ pc = "cmap_loop" /\ i < N
    /\ cmap' = [cmap EXCEPT ![i + 1] = cmap_row(i)]
    /\ i' = i + 1
    /\ UNCHANGED <<pc, err, N, normalized, decoded, exVars, dsVars>>

\* cmap = cmap/255 if normalized else cmap; return cmap
CmapReturn ==
    /\ pc = "cmap_loop" /\ i >= N
    /\ cmap' = IF normalized THEN [n \in 1..Len(cmap) |-> divide255(cmap[n])] ELSE cmap
    /\ pc' = "cmap_done"
    /\ UNCHANGED <<err, N, normalized, i, decoded, exVars, dsVars>>

\* decode_target on one element m of the mask: cls.cmap[m], cls.cmap = voc_cmap().
\* A numpy index in -len..-1 counts from the end; any other outside 0..len-1 raises.
DecodeTarget ==
    /\ pc = "cmap_done" /\ N = DefaultN /\ ~normalized
    /\ \E m \in -(Len(cmap) + 1)..Len(cmap) :
          decoded' = IF 0 <= m /\ m < Len(cmap) THEN <<m, cmap[m + 1]>>
                     ELSE IF -Len(cmap) <= m /\ m < 0 THEN <<m, cmap[Len(cmap) + m + 1]>>
                     ELSE <<m, "IndexError">>
    /\ UNCHANGED <<pc, err, N, normalized, i, cmap, exVars, dsVars>>

NextCmap == CmapAlloc \/ CmapLoop \/ CmapReturn \/ DecodeTarget

SpecCmap == InitCmap /\ [][NextCmap]_vars

\* The reference of C5: bit n of x
BitOf(x, n) == (x \div (2 ^ n)) % 2

RECURSIVE RefChannel(_, _, _)
RefChannel(x, ch, j) ==
    IF j > 7 THEN 0 ELSE BitOf(x, 3 * j + ch) * (2 ^ (7 - j)) + RefChannel(x, ch, j + 1)

RefRow(x) == <<RefChannel(x, 0, 0), RefChannel(x, 1, 0), RefChannel(x, 2, 0)>>

\* C5: every row the loop has stored, and every row of a returned unnormalized
\* table of any size, is the bit-interleave of its own index alone, with channels
\* in 0..255; row 0 is (0,0,0) and row 1 is (128,0,0).
C5_RowsAreBitInterleave ==
    /\ pc = "cmap_loop" =>
          \A n \in 1..i : cmap[n] = RefRow(n - 1)
    /\ (pc = "cmap_done" /\ ~normalized) =>
          /\ Len(cmap) = N
          /\ \A n \in 1..N : /\ cmap[n] = RefRow(n - 1)
                             /\ \A c \in 1..3 : cmap[n][c] \in 0..255
          /\ N >= 1 => cmap[1] = <<0, 0, 0>>
          /\ N >= 2 => cmap[2] = <<128, 0, 0>>

C5_Witness ==
    /\ pc = "cmap_done" /\ ~normalized /\ N > DefaultN
    /\ cmap[2] = <<128, 0, 0>> /\ cmap[DefaultN + 1] = <<0, 0, 32>>

\* C6 as stated: every size <= 0 returns an empty table and raises nothing.
C6_Original ==
    (N <= 0 /\ pc # "cmap_start") => (err = None /\ cmap = <<>> /\ pc # "cmap_raised")

\* C6 amended: size 0 returns an empty table without an error; a negative size
\* raises ValueError at the allocation and returns no table.
C6_ZeroEmptyNegativeRaises ==
    /\ (N = 0 /\ pc # "cmap_start") => (err = None /\ pc \in {"cmap_loop", "cmap_done"} /\ cmap = <<>>)
    /\ (N < 0 /\ pc # "cmap_start") => (err = "ValueError" /\ pc = "cmap_raised")
    /\ (N > 0 /\ pc = "cmap_done") => (err = None /\ Len(cmap) = N)

C6_Witness == N < 0 /\ pc = "cmap_raised" /\ err = "ValueError"

\* C10: the rows of the default table are pairwise different, and decode_target
\* gives two different class indices of 0..255 different colors.
C10_DefaultTableInjective ==
    /\ (pc = "cmap_done" /\ N = DefaultN /\ ~normalized /\ decoded = <<>>) =>
          \A a \in 1..DefaultN : \A b \in (a + 1)..DefaultN : cmap[a] # cmap[b]
    /\ (pc = "cmap_done" /\ decoded # <<>> /\ decoded[1] \in 0..(DefaultN - 1)) =>
          \A m \in 0..(DefaultN - 1) : cmap[m + 1] = decoded[2] => m = decoded[1]

C10_Witness ==
    /\ pc = "cmap_done" /\ N = DefaultN /\ ~normalized
    /\ decoded # <<>> /\ decoded[1] = DefaultN - 1 /\ decoded[2] = <<224, 224, 192>>

-----------------------------------------------------------------------------
(* The filesystem: absolute normalized paths of the directories and files  *)

\* the non-empty components of a path
Components(path) == SelectSeq(Split(path), LAMBDA c : c # <<>>)

\* the proper ancestors of an absolute normalized path, "/" included
Ancestors(path) ==
    LET comps == Components(path)
    IN { <<SEP>> \o JoinComps(SubSeq(comps, 1, n)) : n \in 0..(Len(comps) - 1) }

AncestorsOfAll(paths) == UNION { Ancestors(q) : q \in paths }

\* os.path.isdir, os.path.exists
isdir(path) == abspath(path) \in dirs

exists(path) == abspath(path) \in dirs \cup files

-----------------------------------------------------------------------------
(* download_extract and safe_extract                                       *)

\* longest archive tried by the extractor
MaxMembers == 2

\* destination roots tried by the extractor: absolute, relative, trailing separator
ExtractRoots == { <<"/", "r">>, <<"d">>, <<"/", "r", "/">> }

\* member names: inside root, "../" escapes, absolute names, siblings of root
MemberNames ==
    { <<"f">>,
      <<"a", "/", "f">>,
      <<"a", "/", ".", ".", "/", "f">>,
      <<".", ".", "/", "e">>,
      <<".", ".", "/", ".", ".", "/", "e">>,
      <<"/", "e">>,
      <<"/", "r", "/", "f">>,
      <<".", ".", "/", "r", "x", "/", "f">>,
      <<".", ".", "/", "d", "x">>,
      <<"/", "r", "x">> }

RECURSIVE SeqsUpTo(_, _)
SeqsUpTo(S, n) ==
    IF n = 0 THEN {<<>>}
    ELSE LET shorter == SeqsUpTo(S, n - 1)
         IN shorter \cup { Append(q, x) : q \in shorter, x \in S }

DownloadOutcomes == {"ok", "ChecksumMismatch", "NetworkError"}

\* the archive file name used when download_extract is called on its own
PlainFilename == <<"t", ".tar">>

PathTraversal == "Exception: Attempted Path Traversal in Tar File"

\* is_within_directory(directory, target)
is_within_directory(directory, target) ==
    LET abs_directory == abspath(directory)
        abs_target == abspath(target)
        prefix == commonprefix(abs_directory, abs_target)
    IN prefix = abs_directory

\* mutant of precheck_finished: extraction may start after the first member
precheck_finishedMut(n, members) == n >= 1 \/ members = <<>>

\* the pre-pass "for member in tar.getmembers()" has run off the end
precheck_finished(n, members) == n >= Len(members)

\* where tar.extractall(path) puts a member: no filter argument is passed, so the
\* member lands at the joined path wherever that resolves
extract_target(path, name) == abspath(Join(path, name))

InitExtract ==
    /\ pc = "download" /\ err = None
    /\ root \in ExtractRoots
    /\ dlOutcome \in DownloadOutcomes
    /\ archive \in SeqsUpTo(MemberNames, MaxMembers)
    /\ k = 0 /\ written = {} /\ ret = "returned" /\ trace = <<>>
    /\ files = {}
    /\ dirs = {abspath(root)} \cup Ancestors(abspath(root))
    /\ NoCmapCall /\ NoDataset

\* download_url(url, root, filename, md5): the verified archive lands in root,
\* or the collaborator's error propagates
DownloadUrl(filename) ==
    /\ pc = "download"
    /\ IF dlOutcome = "ok"
       THEN /\ files' = files \cup {abspath(Join(root, filename))}
            /\ dirs' = dirs \cup {abspath(root)} \cup Ancestors(abspath(root))
            /\ pc' = "precheck"
            /\ err' = err
            /\ trace' = Append(trace, "download_ok")
       ELSE /\ pc' = "raised"
            /\ err' = dlOutcome
            /\ trace' = Append(trace, "download_failed")
            /\ UNCHANGED <<files, dirs>>
    /\ k' = 0
    /\ UNCHANGED <<root, dlOutcome, archive, written, ret, cmapVars, dsVars>>

\* safe_extract, one iteration of the pre-pass over tar.getmembers()
CheckMember ==
    /\ pc = "precheck" /\ k < Len(archive)
    /\ LET member_path == Join(root, archive[k + 1])
       IN IF ~is_within_directory(root, member_path)
          THEN /\ pc' = "raised"
               /\ err' = PathTraversal
               /\ k' = k
               /\ trace' = Append(trace, "precheck_failed")
          ELSE /\ k' = k + 1
               /\ trace' = Append(trace, "precheck")
               /\ UNCHANGED <<pc, err>>
    /\ UNCHANGED <<root, dlOutcome, archive, dirs, files, written, ret, cmapVars, dsVars>>

\* safe_extract, tar.extractall(path, members, numeric_owner=numeric_owner)
ExtractAll ==
    /\ pc = "precheck" /\ precheck_finished(k, archive)
    /\ LET targets == { extract_target(root, archive[n]) : n \in 1..Len(archive) }
       IN /\ written' = written \cup targets
          /\ files' = files \cup (targets \ dirs)
          /\ dirs' = dirs \cup AncestorsOfAll(targets)
    /\ pc' = "extracted"
    /\ trace' = Append(trace, "extract")
    /\ UNCHANGED <<err, root, dlOutcome, archive, k, ret, cmapVars, dsVars>>

\* download_extract returns to its caller
ExtractReturn ==
    /\ pc = "extracted"
    /\ pc' = ret
    /\ UNCHANGED <<err, cmapVars, exVars, dsVars>>

NextExtract == DownloadUrl(PlainFilename) \/ CheckMember \/ ExtractAll \/ ExtractReturn

SpecExtract == InitExtract /\ [][NextExtract]_vars

\* a target lies in or under a directory: path components, not characters
ContainedIn(directory, target) ==
    IsPrefix(Components(abspath(directory)), Components(abspath(target)))

MemberFailsCheck(name) == ~is_within_directory(root, Join(root, name))

\* C1: once any member fails the pre-pass check the call raises the
\* path-traversal error with nothing of any member written, and whatever is
\* written is written after every member has passed the check.
C1_AllOrNothing ==
    /\ (\E n \in 1..Len(archive) : MemberFailsCheck(archive[n])) =>
          /\ written = {}
          /\ pc \notin {"extracted", "returned"}
          /\ pc = "raised" => err \in {PathTraversal, "ChecksumMismatch", "NetworkError"}
          /\ (pc = "raised" /\ dlOutcome = "ok") => err = PathTraversal
    /\ (written # {} \/ pc \in {"extracted", "returned"}) =>
          /\ k = Len(archive)
          /\ \A n \in 1..Len(archive) : ~MemberFailsCheck(archive[n])
    /\ err = PathTraversal =>
          /\ written = {}
          /\ files = {abspath(Join(root, PlainFilename))}

C1_Witness ==
    /\ pc = "raised" /\ err = PathTraversal /\ written = {}
    /\ Len(archive) = 2 /\ k = 1
    /\ ~MemberFailsCheck(archive[1]) /\ MemberFailsCheck(archive[2])

\* C2 as stated: no archive with a member whose resolved path lies outside
\* destination_root (by path components) is ever extracted.
C2_RefusesEveryOutsideMember ==
    (\E n \in 1..Len(archive) : ~ContainedIn(root, Join(root, archive[n]))) =>
        (written = {} /\ pc \notin {"extracted", "returned"})

-----------------------------------------------------------------------------
(* VOCSegmentation                                                         *)

\* DATASET_YEAR_DICT: per year, the archive's file name and the base directory
\* (the url and md5 entries only travel to download_url)
DATASET_YEAR_DICT ==
    [y \in {"2012", "2011", "2010", "2009", "2008", "2007"} |->
        CASE y = "2012" -> [filename |-> <<"VOCtrainval_11-May-2012", ".tar">>,
                            base_dir |-> <<"VOCdevkit", "/", "VOC2012">>]
          [] y = "2011" -> [filename |-> <<"VOCtrainval_25-May-2011", ".tar">>,
                            base_dir |-> <<"TrainVal", "/", "VOCdevkit", "/", "VOC2011">>]
          [] y = "2010" -> [filename |-> <<"VOCtrainval_03-May-2010", ".tar">>,
                            base_dir |-> <<"VOCdevkit", "/", "VOC2010">>]
          [] y = "2009" -> [filename |-> <<"VOCtrainval_11-May-2009", ".tar">>,
                            base_dir |-> <<"VOCdevkit", "/", "VOC2009">>]
          [] y = "2008" -> [filename |-> <<"VOCtrainval_11-May-2012", ".tar">>,
                            base_dir |-> <<"VOCdevkit", "/", "VOC2008">>]
          [] y = "2007" -> [filename |-> <<"VOCtrainval_06-Nov-2007", ".tar">>,
                            base_dir |-> <<"VOCdevkit", "/", "VOC2007">>]]

\* the year argument: the six table keys, the augmented variant, one unknown key
YearArgs == DOMAIN DATASET_YEAR_DICT \cup {"2012_aug", "2006"}

TRAIN == <<"train">>

\* the image_set argument: the three splits, one with a trailing newline, one unknown
ImageSetArgs == { TRAIN, <<"trainval">>, <<"val">>, <<"val", "\n">>, <<"test">> }

\* the root argument
RootArgs == { <<"/", "r">>, <<"~">> }

\* longest manifest read
MaxLines == 2

\* manifest lines, as f.readlines() returns them
ManifestLines == { <<" ", "a", " ", "\n">>, <<"/", "c", "\n">>, <<"\n">> }

\* the errors __init__ raises itself: RuntimeError (line 118), ValueError (line 137),
\* AssertionError (line 124)
DatasetNotFound == "RuntimeError: Dataset not found or corrupted"

InvalidSplit == "ValueError: Wrong image_set entered"

AugMaskNotFound == "AssertionError: SegmentationClassAug not found"

\* year = '2012' if year == '2012_aug'
table_year(y) == IF y = "2012_aug" THEN "2012" ELSE y

\* mutant of aug_train: the variant chosen on the year alone
aug_trainMut(aug, set) == aug

\* is_aug and image_set == 'train'
aug_train(aug, set) == aug /\ set = TRAIN

\* mutant of after_setup: the download step taken whatever the flag
after_setupMut(dl) == "download"

\* if download: download_extract(...), then the base directory check
after_setup(dl) == IF dl THEN "download" ELSE "check_root"

\* mutant of list_index: no counting from the end
list_indexMut(n, length) == IF 0 <= n /\ n < length THEN n + 1 ELSE 0

\* the 1-based position list[n] reads in a list of the given length, 0 for IndexError
list_index(n, length) ==
    IF 0 <= n /\ n < length THEN n + 1
    ELSE IF -length <= n /\ n < 0 THEN length + n + 1
    ELSE 0

\* os.path.join(dir, x + ext)
sample_path(dir, id, ext) == Join(dir, id \o <<ext>>)

\* the directory a root argument names, before or after expansion
RootDir(r) == IF r = <<"~">> THEN Home ELSE r

\* the layout a dataset of (root, year, split) has on disk
LayoutPaths(r, y, set) ==
    LET base == RootDir(r) \o <<SEP>> \o DATASET_YEAR_DICT[table_year(y)].base_dir
    IN [base      |-> base,
        images    |-> base \o <<SEP, "JPEGImages">>,
        std_mask  |-> base \o <<SEP, "SegmentationClass">>,
        aug_mask  |-> base \o <<SEP, "SegmentationClassAug">>,
        split     |-> base \o <<SEP, "ImageSets", SEP, "Segmentation", SEP, set[1], ".txt">>,
        aug_split |-> RootDir(r) \o <<SEP, "train_aug", ".txt">>]

\* archives the download may deliver: the year's tree with the train manifest,
\* a tree without manifests, an archive with an escaping member
DatasetArchives(y) ==
    LET base == DATASET_YEAR_DICT[table_year(y)].base_dir
    IN { <<base \o <<SEP, "ImageSets", SEP, "Segmentation", SEP, "train", ".txt">>,
           base \o <<SEP, "SegmentationClassAug", SEP, "a", ".png">>>>,
         <<base \o <<SEP, "JPEGImages", SEP, "a", ".jpg">>>>,
         <<base \o <<SEP, "JPEGImages", SEP, "a", ".jpg">>, <<".", ".", SEP, "e">>>> }

\* the state before VOCSegmentation(root, year, image_set, download) runs: the
\* arguments, what the download will deliver, and which parts of the layout exist
InitDataset(roots, flags) ==
    /\ pc = "init" /\ err = None
    /\ root \in roots
    /\ year \in YearArgs
    /\ image_set \in ImageSetArgs
    /\ download \in flags
    /\ IF download /\ table_year(year) \in DOMAIN DATASET_YEAR_DICT
       THEN /\ dlOutcome \in DownloadOutcomes
            /\ IF dlOutcome = "ok" THEN archive \in DatasetArchives(year) ELSE archive = <<>>
       ELSE dlOutcome = None /\ archive = <<>>
    /\ IF table_year(year) \in DOMAIN DATASET_YEAR_DICT
       THEN LET lay == LayoutPaths(root, year, image_set)
            IN \E present \in SUBSET {lay.base, lay.aug_mask, lay.split, lay.aug_split} :
                  /\ files = present \cap {lay.split, lay.aug_split}
                  /\ dirs = (present \cap {lay.base, lay.aug_mask}) \cup AncestorsOfAll(present)
       ELSE files = {} /\ dirs = {<<SEP>>}
    /\ k = 0 /\ written = {} /\ ret = "check_root" /\ trace = <<>>
    /\ is_aug = FALSE
    /\ voc_root = <<>> /\ image_dir = <<>> /\ mask_dir = <<>> /\ split_f = <<>>
    /\ lines = <<>> /\ images = <<>> /\ masks = <<>> /\ index = 0 /\ result = NoResult
    /\ NoCmapCall

Init == InitDataset(RootArgs, BOOLEAN)

\* __init__, lines 92-115: the year lookup (KeyError on an unknown key) and the paths
Setup ==
    /\ pc = "init"
    /\ is_aug' = (year = "2012_aug")
    /\ IF table_year(year) \notin DOMAIN DATASET_YEAR_DICT
       THEN /\ pc' = "raised"
            /\ err' = "KeyError"
            /\ UNCHANGED <<root, voc_root, image_dir>>
       ELSE LET base_dir == DATASET_YEAR_DICT[table_year(year)].base_dir
            IN /\ root' = expanduser(root)
               /\ voc_root' = Join(root', base_dir)
               /\ image_dir' = Join(voc_root', <<"JPEGImages">>)
               /\ pc' = after_setup(download)
               /\ err' = err
    /\ UNCHANGED <<year, image_set, download, mask_dir, split_f, lines, images, masks,
                   index, result, dlOutcome, archive, k, dirs, files, written, ret,
                   trace, cmapVars>>

\* mutant of CheckRoot: the base directory is not looked at
CheckRootMut ==
    /\ pc = "check_root"
    /\ pc' = "select_split" /\ err' = err
    /\ trace' = Append(trace, "check_root")
    /\ UNCHANGED <<root, dlOutcome, archive, k, dirs, files, written, ret, cmapVars, dsVars>>

\* __init__, lines 117-119
CheckRoot ==
    /\ pc = "check_root"
    /\ IF ~isdir(voc_root)
       THEN pc' = "raised" /\ err' = DatasetNotFound
       ELSE pc' = "select_split" /\ err' = err
    /\ trace' = Append(trace, "check_root")
    /\ UNCHANGED <<root, dlOutcome, archive, k, dirs, files, written, ret, cmapVars, dsVars>>

\* __init__, lines 121-134
SelectSplit ==
    /\ pc = "select_split"
    /\ IF aug_train(is_aug, image_set)
       THEN /\ mask_dir' = Join(voc_root, <<"SegmentationClassAug">>)
            /\ IF exists(mask_dir')
               THEN /\ split_f' = Join(root, <<"train_aug", ".txt">>)
                    /\ pc' = "check_split" /\ err' = err
               ELSE /\ split_f' = split_f
                    /\ pc' = "raised"
                    /\ err' = AugMaskNotFound
       ELSE LET splits_dir == Join(voc_root, <<"ImageSets", SEP, "Segmentation">>)
            IN /\ mask_dir' = Join(voc_root, <<"SegmentationClass">>)
               /\ split_f' = Join(splits_dir, rstrip(image_set, {"\n"}) \o <<".txt">>)
               /\ pc' = "check_split" /\ err' = err
    /\ UNCHANGED <<year, image_set, download, is_aug, voc_root, image_dir, lines, images,
                   masks, index, result, exVars, cmapVars>>

\* __init__, lines 136-139
CheckSplit ==
    /\ pc = "check_split"
    /\ IF ~exists(split_f)
       THEN pc' = "raised" /\ err' = InvalidSplit
       ELSE pc' = "read_manifest" /\ err' = err
    /\ UNCHANGED <<exVars, cmapVars, dsVars>>

\* __init__, lines 141-150: the manifest is read and the two lists are built
ReadManifest ==
    /\ pc = "read_manifest"
    /\ IF abspath(split_f) \in dirs
       THEN /\ pc' = "raised" /\ err' = "IsADirectoryError"
            /\ UNCHANGED <<lines, images, masks, trace>>
       ELSE \E content \in SeqsUpTo(ManifestLines, MaxLines) :
               LET file_names == [n \in 1..Len(content) |-> strip(content[n])]
               IN /\ lines' = content
                  /\ images' = [n \in 1..Len(file_names) |->
                                   sample_path(image_dir, file_names[n], ".jpg")]
                  /\ masks' = [n \in 1..Len(file_names) |->
                                  sample_path(mask_dir, file_names[n], ".png")]
                  /\ IF Len(images') = Len(masks')
                     THEN pc' = "constructed" /\ err' = err
                     ELSE pc' = "raised" /\ err' = "AssertionError"
                  /\ trace' = Append(trace, "read_manifest")
    /\ UNCHANGED <<year, image_set, download, is_aug, voc_root, image_dir, mask_dir,
                   split_f, index, result, root, dlOutcome, archive, k, dirs, files,
                   written, ret, cmapVars>>

\* __len__
len == Len(images)

\* __getitem__(index): the two list reads, then Image.open on both paths, which
\* the image library may fail (no transform is installed)
GetItem ==
    /\ pc = "constructed"
    /\ \E n \in -(MaxLines + 2)..(MaxLines + 1), readable \in BOOLEAN :
          /\ index' = n
          /\ LET at == list_index(n, len)
             IN result' = IF at = 0 THEN [kind |-> "IndexError"]
                          ELSE IF ~readable THEN [kind |-> "ImageDecodeError"]
                          ELSE [kind |-> "sample", img |-> images[at], target |-> masks[at]]
    /\ UNCHANGED <<pc, err, year, image_set, download, is_aug, voc_root, image_dir,
                   mask_dir, split_f, lines, images, masks, exVars, cmapVars>>

\* the download step of __init__: download_extract(self.url, self.root, self.filename, self.md5)
Download ==
    \E y \in DOMAIN DATASET_YEAR_DICT :
        y = table_year(year) /\ DownloadUrl(DATASET_YEAR_DICT[y].filename)

\* construction, with or without the download
Next ==
    \/ Setup
    \/ Download
    \/ CheckMember
    \/ ExtractAll
    \/ ExtractReturn
    \/ CheckRoot
    \/ SelectSplit
    \/ CheckSplit
    \/ ReadManifest

Spec == Init /\ [][Next]_vars

\* construction from a dataset already on disk, then indexed access
InitAccess == InitDataset({<<"/", "r">>}, {FALSE})

NextAccess == Setup \/ CheckRoot \/ SelectSplit \/ CheckSplit \/ ReadManifest \/ GetItem

SpecAccess == InitAccess /\ [][NextAccess]_vars

-----------------------------------------------------------------------------
(* Properties of construction and access                                   *)

KnownYear == table_year(year) \in DOMAIN DATASET_YEAR_DICT

\* the layout of the dataset being constructed
Lay == LayoutPaths(root, year, image_set)

AugTrainVariant == year = "2012_aug" /\ image_set = <<"train">>

BaseMissing == Lay.base \notin dirs

AugMaskMissing == Lay.aug_mask \notin dirs \cup files

ManifestMissing ==
    (IF AugTrainVariant THEN Lay.aug_split ELSE Lay.split) \notin dirs \cup files

\* construction has ended, and not in the year lookup or the download step
EndedPastDownload ==
    /\ KnownYear
    /\ pc \in {"raised", "constructed"}
    /\ err \notin {"KeyError", "ChecksumMismatch", "NetworkError", PathTraversal}

NoSampleList == images = <<>> /\ masks = <<>> /\ lines = <<>>

\* C4 as stated: a missing base directory gives DatasetNotFound, and otherwise a
\* missing manifest gives InvalidSplit, for every version and split.
C4_Original ==
    EndedPastDownload =>
        /\ BaseMissing => (pc = "raised" /\ err = DatasetNotFound /\ NoSampleList)
        /\ (~BaseMissing /\ ManifestMissing) =>
              (pc = "raised" /\ err = InvalidSplit /\ NoSampleList)

\* C4 amended: once the year is looked up and the optional download is through,
\* a missing base directory gives DatasetNotFound whatever else is missing;
\* otherwise the augmented-train variant with SegmentationClassAug missing fails
\* its assertion before the manifest is looked at; otherwise a missing manifest
\* gives InvalidSplit; none of the three produces a sample list, and each error
\* is raised in that case only.
C4_ConstructionErrors ==
    EndedPastDownload =>
        /\ BaseMissing => (pc = "raised" /\ err = DatasetNotFound /\ NoSampleList)
        /\ (~BaseMissing /\ AugTrainVariant /\ AugMaskMissing) =>
              (pc = "raised" /\ err = AugMaskNotFound /\ NoSampleList)
        /\ (~BaseMissing /\ ~(AugTrainVariant /\ AugMaskMissing) /\ ManifestMissing) =>
              (pc = "raised" /\ err = InvalidSplit /\ NoSampleList)
        /\ err = DatasetNotFound => BaseMissing
        /\ err = InvalidSplit => (~BaseMissing /\ ManifestMissing)
        /\ err = AugMaskNotFound => (~BaseMissing /\ AugTrainVariant /\ AugMaskMissing)
        /\ pc = "constructed" => (~BaseMissing /\ ~ManifestMissing)

C4_Witness ==
    /\ EndedPastDownload /\ pc = "raised"
    /\ year = "2012_aug" /\ image_set = <<"val">>
    /\ ~BaseMissing /\ ManifestMissing /\ AugMaskMissing /\ err = InvalidSplit

\* a line without its leading and trailing whitespace, by positions
Trimmed(line) ==
    LET solid == { n \in 1..Len(line) : line[n] \notin WHITESPACE }
    IN IF solid = {} THEN <<>>
       ELSE SubSeq(line, CHOOSE a \in solid : \A n \in solid : a <= n,
                         CHOOSE b \in solid : \A n \in solid : b >= n)

ExpectedMaskDir == IF AugTrainVariant THEN Lay.aug_mask ELSE Lay.std_mask

\* C7 as stated: entry k of the image list is <image_dir>/<id_k>.jpg and entry k
\* of the mask list is <mask_dir>/<id_k>.png, for every manifest line.
C7_Original ==
    pc = "constructed" =>
        /\ Len(images) = Len(lines) /\ Len(masks) = Len(lines)
        /\ \A n \in 1..Len(lines) :
              /\ images[n] = Lay.images \o <<SEP>> \o Trimmed(lines[n]) \o <<".jpg">>
              /\ masks[n] = ExpectedMaskDir \o <<SEP>> \o Trimmed(lines[n]) \o <<".png">>

\* C7 amended: both lists have the manifest's length N = length(), order and
\* duplicates kept; entry k is <image_dir>/<id_k>.jpg and <mask_dir>/<id_k>.png
\* for the trimmed k-th line id_k, except that an id_k beginning with the path
\* separator gives <id_k>.jpg and <id_k>.png alone, without the directory.
C7_ListsFollowManifest ==
    pc = "constructed" =>
        /\ Len(images) = Len(lines) /\ Len(masks) = Len(lines) /\ len = Len(lines)
        /\ image_dir = Lay.images /\ mask_dir = ExpectedMaskDir
        /\ \A n \in 1..Len(lines) :
              LET id == Trimmed(lines[n])
              IN IF StartsWith(id, SEP)
                 THEN images[n] = id \o <<".jpg">> /\ masks[n] = id \o <<".png">>
                 ELSE /\ images[n] = Lay.images \o <<SEP>> \o id \o <<".jpg">>
                      /\ masks[n] = ExpectedMaskDir \o <<SEP>> \o id \o <<".png">>

C7_Witness ==
    /\ pc = "constructed" /\ year = "2011"
    /\ lines = << <<" ", "a", " ", "\n">>, <<" ", "a", " ", "\n">> >>
    /\ images = << <<"/", "r", "/", "TrainVal", "/", "VOCdevkit", "/", "VOC2011", "/",
                     "JPEGImages", "/", "a", ".jpg">>,
                   <<"/", "r", "/", "TrainVal", "/", "VOCdevkit", "/", "VOC2011", "/",
                     "JPEGImages", "/", "a", ".jpg">> >>
    /\ Len(masks) = 2

Before(a, b) ==
    \A n \in 1..Len(trace) : trace[n] = b => \E m \in 1..(n - 1) : trace[m] = a

Taken(a) == \E n \in 1..Len(trace) : trace[n] = a

ExtractSteps == {"precheck", "precheck_failed", "extract"}

\* C8: with download set, the pre-check and the extraction follow a successful
\* download, and the base-directory check and the manifest read follow the
\* extraction; a download error surfaces with no extraction and no sample list;
\* with download not set there is no download or extraction step at all.
C8_SetupOrder ==
    /\ ~download =>
          /\ written = {}
          /\ \A n \in 1..Len(trace) : trace[n] \in {"check_root", "read_manifest"}
    /\ download =>
          /\ \A s \in ExtractSteps : Before("download_ok", s)
          /\ Before("extract", "check_root") /\ Before("extract", "read_manifest")
          /\ Before("check_root", "read_manifest")
          /\ (Taken("download_ok") \/ Taken("download_failed")) => trace[1] \in {"download_ok", "download_failed"}
          /\ written # {} => Taken("extract")
    /\ (download /\ dlOutcome \in {"ChecksumMismatch", "NetworkError"} /\ pc \notin {"init", "download"}) =>
          /\ pc = "raised" /\ err = dlOutcome
          /\ trace = <<"download_failed">>
          /\ written = {} /\ NoSampleList
    /\ err \in {"ChecksumMismatch", "NetworkError"} => (download /\ err = dlOutcome)

C8_Witness ==
    /\ download /\ pc = "constructed" /\ lines # <<>>
    /\ trace = <<"download_ok", "precheck", "precheck", "extract", "check_root", "read_manifest">>

\* C9: the augmented-train variant reads <root>/train_aug.txt and takes masks
\* from <base_dir>/SegmentationClassAug; every other (version, split) reads
\* <base_dir>/ImageSets/Segmentation/<split>.txt and takes masks from
\* <base_dir>/SegmentationClass; the two choices go together.
C9_ManifestAndMaskDir ==
    /\ (KnownYear /\ split_f # <<>>) =>
          IF AugTrainVariant
          THEN split_f = Lay.aug_split /\ mask_dir = Lay.aug_mask
          ELSE split_f = Lay.split /\ mask_dir = Lay.std_mask
    /\ (KnownYear /\ mask_dir # <<>>) =>
          mask_dir = IF AugTrainVariant THEN Lay.aug_mask ELSE Lay.std_mask
    /\ pc \in {"check_split", "read_manifest", "constructed"} => (split_f # <<>> /\ mask_dir # <<>>)

C9_Witness ==
    /\ pc = "constructed" /\ AugTrainVariant /\ root = Home
    /\ split_f = <<"/", "h", "/", "train_aug", ".txt">>
    /\ mask_dir = <<"/", "h", "/", "VOCdevkit", "/", "VOC2012", "/", "SegmentationClassAug">>

\* C3 as stated: get(index) raises IndexOutOfRange exactly when index is outside
\* [0, N), every negative index included.
C3_Original ==
    (pc = "constructed" /\ result # NoResult) =>
        (result.kind = "IndexError" <=> (index < 0 \/ index >= Len(lines)))

\* C3 amended: get(index) raises IndexOutOfRange exactly when index is outside
\* [-N, N); an index in [0, N) reads sample index, and an index in [-N, -1]
\* reads sample N + index.
C3_IndexErrorOutsideMinusNToN ==
    (pc = "constructed" /\ result # NoResult) =>
        /\ result.kind = "IndexError" <=> (index < -Len(lines) \/ index >= Len(lines))
        /\ result.kind = "sample" =>
              LET at == IF index >= 0 THEN index + 1 ELSE Len(lines) + index + 1
              IN result.img = images[at] /\ result.target = masks[at]

C3_Witness ==
    /\ pc = "constructed" /\ Len(lines) = 2 /\ lines[1] # lines[2]
    /\ index = -1 /\ result # NoResult /\ result.kind = "sample" /\ result.img = images[2]

=============================================================================
